---- MODULE Spec2Model ----
(***************************************************************************)
(* Sodium::FileCryptor (src/include/filecryptor.h): blockwise authenticated *)
(* file encryption with a running nonce and a trailing keyed hash.          *)
(*                                                                          *)
(* One FileCryptor is constructed, encrypt() is run on a plaintext stream,  *)
(* and decrypt() is then run on an input derived from the written file      *)
(* (unchanged, or altered/truncated/reordered).  Every loop iteration of    *)
(* encrypt() and decrypt() is one action.                                   *)
(*                                                                          *)
(* Further specifications over the same variables: SpecMismatch (decrypt    *)
(* by a FileCryptor that differs in one argument), SpecCtor (the checks of  *)
(* the constructor), SpecRepeat (call after call on one object), SpecIO     *)
(* (streams that fail), SpecConc (two calls interleaved on one object),     *)
(* SpecPrefix (decrypt of inputs of every length) and SpecPK                *)
(* (test_of_correctness of the CryptorPK test suite).                       *)
(*                                                                          *)
(* Bytes are symbolic values: a byte records what produced it, so that the  *)
(* AEAD tag and the generic hash are collision free.  Sizes are scaled      *)
(* down (libsodium: MACSIZE 16, hash sizes 16..64) keeping their ratios.    *)
(***************************************************************************)
EXTENDS Integers, Sequences, FiniteSets, TLC

(* ------------------------------ bounds -------------------------------- *)

\* largest blocksize_ a FileCryptor is constructed with
MaxBlock == 4

\* longest plaintext handed to encrypt()
MaxLen == 4

(* ------------------------- program constants -------------------------- *)

\* CryptorAEAD::MACSIZE, the tag bytes added to every block
MACSIZE == 2

\* crypto_generichash_BYTES_MIN
HASHSIZE_MIN == 2

\* crypto_generichash_BYTES_MAX
HASHSIZE_MAX == 8

\* Key::KEYSIZE_AEAD, the size of the key of the AEAD
KEYSIZE_AEAD == 4

\* Key::KEYSIZE_HASHKEY_MIN
HASHKEYSIZE_MIN == 2

\* Key::KEYSIZE_HASHKEY_MAX
HASHKEYSIZE_MAX == 8

\* longest plaintext of two calls that run interleaved
MaxConcLen == 3

\* blocksize_ of a FileCryptor on which several calls are made
CallBlock == 2

\* CryptorPK::MACSIZE
PK_MACSIZE == 2

\* number of values of one plaintext/ciphertext byte
ByteMod == 2

\* number of values of a Nonce<NONCESIZE_AEAD>; increment() wraps
NonceMod == 16

(* ------------------------------- bytes -------------------------------- *)

\* A byte.  k: what it is ("pt" plaintext, "ct" encrypted byte, "tag" byte
\* of an AEAD tag, "hash" byte of a digest, "zero" a '\0' filler);
\* i: its index inside a tag or digest; v: its value for "pt"/"ct";
\* x: 1 when a bit of it was flipped; key, n, over: the key, the nonce (or
\* output size) and the bytes a tag or digest was computed from.
MkByte(k, i, v, key, n, over) ==
  [k |-> k, i |-> i, v |-> v, x |-> 0, key |-> key, n |-> n, over |-> over]

PtByte(v) == MkByte("pt", 0, v, 0, 0, <<>>)

ZeroByte == MkByte("zero", 0, 0, 0, 0, <<>>)

\* data_t(n, '\0')
Zeros(n) == [i \in 1..n |-> ZeroByte]

Min(a, b) == IF a < b THEN a ELSE b

(* -------------------- collaborators: AEAD, hash, nonce ---------------- *)

\* keystream byte of the AEAD cipher for position i of a block
KeyStream(key, nonce, i) == (key + nonce + i) % ByteMod

\* the MACSIZE tag bytes authenticating header and body under key, nonce
AeadTag(header, body, key, nonce) ==
  [j \in 1..MACSIZE |-> MkByte("tag", j, 0, key, nonce, header \o body)]

AeadBody(plaintext, key, nonce) ==
  [j \in 1..Len(plaintext) |->
     MkByte("ct", 0, (plaintext[j].v + KeyStream(key, nonce, j)) % ByteMod,
            0, 0, <<>>)]

\* CryptorAEAD::encrypt: MACSIZE + plaintext.size() bytes
AeadEncrypt(header, plaintext, key, nonce) ==
  LET body == AeadBody(plaintext, key, nonce)
  IN  body \o AeadTag(header, body, key, nonce)

\* CryptorAEAD::decrypt: [ok, pt]; fails on a buffer too small for a tag and
\* on a tag that does not verify
AeadDecrypt(header, ciphertext_with_mac, key, nonce) ==
  LET n    == Len(ciphertext_with_mac)
      body == SubSeq(ciphertext_with_mac, 1, n - MACSIZE)
      tag  == SubSeq(ciphertext_with_mac, n - MACSIZE + 1, n)
  IN  IF n < MACSIZE \/ tag # AeadTag(header, body, key, nonce)
      THEN [ok |-> FALSE, pt |-> <<>>]
      ELSE [ok |-> TRUE,
            pt |-> [j \in 1..Len(body) |->
                      PtByte((body[j].v + ByteMod - KeyStream(key, nonce, j))
                             % ByteMod)]]

\* crypto_generichash_init: the state is the bytes fed so far
HashInit == <<>>

\* crypto_generichash_update
HashUpdate(st, bytes) == st \o bytes

\* crypto_generichash_final: outlen bytes keyed by hashkey over the bytes fed
HashFinal(st, hashkey, outlen) ==
  [j \in 1..outlen |-> MkByte("hash", j, 0, hashkey, outlen, st)]

\* Nonce::increment
NonceIncrement(n) == (n + 1) % NonceMod

(* ------------------------------ streams ------------------------------- *)

\* an input stream: its bytes, get position, gcount(), and its state: fail
\* is !stream (failbit or badbit), bad is badbit (an I/O error)
OpenStream(data) ==
  [data |-> data, pos |-> 0, fail |-> FALSE, bad |-> FALSE, gcount |-> 0]

\* number of bytes a read(buf, n) obtains
Got(s, n) == IF s.fail THEN 0 ELSE Min(n, Len(s.data) - s.pos)

\* the bytes a read(buf, n) obtains
ReadBytes(s, n) == SubSeq(s.data, s.pos + 1, s.pos + Got(s, n))

\* the stream after read(buf, n): a short read sets eofbit and failbit
AfterRead(s, n) ==
  [s EXCEPT !.pos = s.pos + Got(s, n),
            !.gcount = Got(s, n),
            !.fail = s.fail \/ Got(s, n) < n]

\* a buffer after bytes were read into its front; its size is unchanged
Overlay(buf, bytes) ==
  [j \in 1..Len(buf) |-> IF j <= Len(bytes) THEN bytes[j] ELSE buf[j]]

\* seekg(off, std::ios_base::end): no effect on a failed stream, fails when
\* the target lies before the start
SeekEnd(s, off) ==
  IF s.fail THEN s
  ELSE IF Len(s.data) + off < 0 THEN [s EXCEPT !.fail = TRUE]
  ELSE [s EXCEPT !.pos = Len(s.data) + off]

\* seekg(off, std::ios_base::beg)
SeekBeg(s, off) ==
  IF s.fail THEN s ELSE [s EXCEPT !.pos = off]

\* tellg(): pos_type(-1) on a failed stream
Tell(s) == IF s.fail THEN -1 ELSE s.pos

(* ------------------------------- state -------------------------------- *)

VARIABLES
  cfg,            \* key_, nonce_, header_, blocksize_, hashkey_, hashsize_
  pc,             \* position of the running call
  istr,           \* encrypt(): the plaintext stream
  ifs,            \* decrypt(): the input file stream
  ostr,           \* the bytes written to the output stream
  state,          \* crypto_generichash_state
  running_nonce,  \* the running nonce of the call
  plaintext,      \* encrypt(): the chunk buffer
  ciphertext,     \* decrypt(): the chunk buffer (its active bytes)
  hash_saved,     \* decrypt(): the hash read from the end of the file
  hash_pos,       \* decrypt(): where the hash starts
  in_mac,         \* decrypt(): the read ran into the hash
  result,         \* "none", "ok", or the error thrown
  artifact,       \* what encrypt() wrote
  tamper,         \* how the input of decrypt() was derived from artifact
  engine,         \* the calls decrypt() made to CryptorAEAD::decrypt
  ostr_fail,      \* !ostr: a write to the output stream has failed
  faults,         \* the I/O errors the streams of the call will still raise
  other,          \* the locals of a second call running on the same object
  pk              \* test_of_correctness (CryptorPK): its locals

vars == <<cfg, pc, istr, ifs, ostr, state, running_nonce, plaintext,
          ciphertext, hash_saved, hash_pos, in_mac, result, artifact,
          tamper, engine, ostr_fail, faults, other, pk>>

\* what no step of encrypt() or decrypt() touches
testvars == <<other, pk>>

decvars == <<ifs, ciphertext, hash_saved, hash_pos, in_mac, tamper, engine>>

\* the size of a full ciphertext chunk
ChunkSize == MACSIZE + cfg.blocksize

NoTamper == [kind |-> "none", i |-> 0, j |-> 0]

\* the plaintexts handed to encrypt()
RECURSIVE SeqsUpTo(_, _)
SeqsUpTo(S, n) ==
  IF n = 0 THEN {<<>>}
  ELSE LET shorter == SeqsUpTo(S, n - 1)
       IN  shorter \cup {Append(s, e) : s \in {t \in shorter : Len(t) = n - 1},
                                        e \in S}

Plaintexts == SeqsUpTo({PtByte(v) : v \in 0..(ByteMod - 1)}, MaxLen)

\* FileCryptor::FileCryptor with arguments that pass its checks
Init ==
  /\ cfg \in [key : {1}, nonce : {0, NonceMod - 1}, header : {<<>>},
              blocksize : 1..MaxBlock, hashkey : {1},
              hashsize : HASHSIZE_MIN..HASHSIZE_MAX]
  /\ pc = "idle"
  /\ istr = OpenStream(<<>>)
  /\ ifs = OpenStream(<<>>)
  /\ ostr = <<>>
  /\ state = HashInit
  /\ running_nonce = 0
  /\ plaintext = <<>>
  /\ ciphertext = <<>>
  /\ hash_saved = <<>>
  /\ hash_pos = 0
  /\ in_mac = FALSE
  /\ result = "none"
  /\ artifact = <<>>
  /\ tamper = NoTamper
  /\ engine = <<>>
  /\ ostr_fail = FALSE
  /\ faults = {}
  /\ other = <<>>
  /\ pk = <<>>

(* ------------------------------ encrypt ------------------------------- *)

\* mutant: the running nonce is not incremented between blocks
EncNextNonce_Same(n) == n

\* running_nonce.increment() at the end of a full block
EncNextNonce(n) == NonceIncrement(n)

\* mutant: the final chunk is encrypted even when nothing was read
HasPartialChunk_Always(s) == TRUE

\* if (s != 0): a final partial chunk was read
HasPartialChunk(s) == s # 0

\* mutant: the final partial block is not fed to the hash
EncFeedFinal_Skipped(st, ct) == st

\* crypto_generichash_update with the final partial block
EncFeedFinal(st, ct) == HashUpdate(st, ct)

\* std::ostream::write: the stream afterwards.  A failed stream takes
\* nothing; a write that fails leaves some part of the bytes in the stream.
WriteOutcomes(o, failed, fl, bytes) ==
  IF failed
  THEN {[data |-> o, fail |-> TRUE, faults |-> fl]}
  ELSE {[data |-> o \o bytes, fail |-> FALSE, faults |-> fl]}
       \cup {[data |-> o \o SubSeq(bytes, 1, m), fail |-> TRUE,
              faults |-> fl \ {"write"}] :
               m \in {n \in 0..(Len(bytes) - 1) : "write" \in fl}}

\* mutant: the write of a full chunk is not checked
LoopWriteFailed_Unchecked(failed) == FALSE

\* if (!ostr) after the write of a full chunk
LoopWriteFailed(failed) == failed

\* if (!ostr) after the write of the final chunk
FinalWriteFailed(failed) == failed

\* if (!ostr) after the write of the hash
HashWriteFailed(failed) == failed

\* mutant: the running nonce is a leftover of an earlier call
FirstNonce_Stale(stored, leftover) == leftover

\* Nonce<NONCESIZE_AEAD> running_nonce {nonce_}
FirstNonce(stored, leftover) == stored

\* encrypt(): set up the hash state, the chunk buffer and the running nonce
StartEncrypt ==
  /\ pc = "idle"
  /\ \E P \in Plaintexts : istr' = OpenStream(P)
  /\ ostr' = <<>>
  /\ ostr_fail' = FALSE
  /\ state' = HashInit
  /\ plaintext' = Zeros(cfg.blocksize)
  /\ running_nonce' = FirstNonce(cfg.nonce, running_nonce)
  /\ result' = "none"
  /\ pc' = "e_loop"
  /\ UNCHANGED <<cfg, artifact, faults>>
  /\ UNCHANGED decvars
  /\ UNCHANGED testvars

\* encrypt(): the read of a full block succeeded; one pass of the loop body
EncLoopBody ==
  /\ pc = "e_loop"
  /\ Got(istr, cfg.blocksize) = cfg.blocksize
  /\ LET buf == Overlay(plaintext, ReadBytes(istr, cfg.blocksize))
         ct  == AeadEncrypt(cfg.header, buf, cfg.key, running_nonce)
     IN  /\ plaintext' = buf
         /\ \E w \in WriteOutcomes(ostr, ostr_fail, faults, ct) :
              /\ ostr' = w.data
              /\ ostr_fail' = w.fail
              /\ faults' = w.faults
              /\ IF LoopWriteFailed(w.fail)
                 THEN /\ result' = "error writing full chunk to file"
                      /\ pc' = "e_failed"
                      /\ UNCHANGED state
                 ELSE /\ state' = HashUpdate(state, ct)
                      /\ UNCHANGED <<pc, result>>
  /\ istr' = AfterRead(istr, cfg.blocksize)
  /\ running_nonce' = EncNextNonce(running_nonce)
  /\ UNCHANGED <<cfg, artifact>>
  /\ UNCHANGED decvars
  /\ UNCHANGED testvars

\* encrypt(): the read came up short at the end of the stream; the loop ends
EncLoopExit ==
  /\ pc = "e_loop"
  /\ Got(istr, cfg.blocksize) < cfg.blocksize
  /\ plaintext' = Overlay(plaintext, ReadBytes(istr, cfg.blocksize))
  /\ istr' = AfterRead(istr, cfg.blocksize)
  /\ pc' = "e_final"
  /\ UNCHANGED <<cfg, ostr, state, running_nonce, result, artifact,
                 ostr_fail, faults>>
  /\ UNCHANGED decvars
  /\ UNCHANGED testvars

\* encrypt(): the read hit an I/O error after g bytes (badbit); the loop
\* condition is false as at the end of the stream, and the loop ends
EncReadError ==
  /\ pc = "e_loop"
  /\ "read" \in faults
  /\ ~istr.fail
  /\ \E g \in 0..Min(cfg.blocksize - 1, Len(istr.data) - istr.pos) :
       /\ plaintext' =
            Overlay(plaintext, SubSeq(istr.data, istr.pos + 1, istr.pos + g))
       /\ istr' = [istr EXCEPT !.pos = istr.pos + g, !.gcount = g,
                               !.fail = TRUE, !.bad = TRUE]
  /\ faults' = faults \ {"read"}
  /\ pc' = "e_final"
  /\ UNCHANGED <<cfg, ostr, state, running_nonce, result, artifact,
                 ostr_fail>>
  /\ UNCHANGED decvars
  /\ UNCHANGED testvars

\* encrypt(): the final partial chunk, if one was read
EncFinalChunk ==
  /\ pc = "e_final"
  /\ LET s == istr.gcount
     IN  IF HasPartialChunk(s)
         THEN LET buf == SubSeq(plaintext, 1, s)
                  ct  == AeadEncrypt(cfg.header, buf, cfg.key, running_nonce)
              IN  /\ plaintext' = buf
                  /\ \E w \in WriteOutcomes(ostr, ostr_fail, faults, ct) :
                       /\ ostr' = w.data
                       /\ ostr_fail' = w.fail
                       /\ faults' = w.faults
                       /\ IF FinalWriteFailed(w.fail)
                          THEN /\ result' =
                                    "error writing final chunk to file"
                               /\ pc' = "e_failed"
                               /\ UNCHANGED state
                          ELSE /\ state' = EncFeedFinal(state, ct)
                               /\ pc' = "e_hash"
                               /\ UNCHANGED result
         ELSE /\ pc' = "e_hash"
              /\ UNCHANGED <<plaintext, ostr, state, result, ostr_fail,
                             faults>>
  /\ UNCHANGED <<cfg, istr, running_nonce, artifact>>
  /\ UNCHANGED decvars
  /\ UNCHANGED testvars

\* mutant: the hash is written to the stream twice
EncWriteHash_Twice ==
  /\ pc = "e_hash"
  /\ LET hash == HashFinal(state, cfg.hashkey, cfg.hashsize)
     IN  /\ ostr' = ostr \o hash \o hash
         /\ artifact' = ostr \o hash \o hash
  /\ result' = "ok"
  /\ pc' = "e_done"
  /\ UNCHANGED <<cfg, istr, state, running_nonce, plaintext, ostr_fail,
                 faults>>
  /\ UNCHANGED decvars
  /\ UNCHANGED testvars

\* encrypt(): finish the hash and write it at the end of the stream
EncWriteHash ==
  /\ pc = "e_hash"
  /\ LET hash == HashFinal(state, cfg.hashkey, cfg.hashsize)
     IN  \E w \in WriteOutcomes(ostr, ostr_fail, faults, hash) :
           /\ ostr' = w.data
           /\ ostr_fail' = w.fail
           /\ faults' = w.faults
           /\ IF HashWriteFailed(w.fail)
              THEN /\ result' = "error writing hash to file"
                   /\ pc' = "e_failed"
                   /\ UNCHANGED artifact
              ELSE /\ result' = "ok"
                   /\ pc' = "e_done"
                   /\ artifact' = w.data
  /\ UNCHANGED <<cfg, istr, state, running_nonce, plaintext>>
  /\ UNCHANGED decvars
  /\ UNCHANGED testvars

(* --------------------- the inputs given to decrypt -------------------- *)

\* a byte with one bit flipped
Flip(b) ==
  IF b.k \in {"pt", "ct"} THEN [b EXCEPT !.v = (b.v + 1) % ByteMod]
  ELSE [b EXCEPT !.x = 1 - b.x]

\* the bytes of a file before its trailing hash
BodyLen(a) == Len(a) - cfg.hashsize

\* number of ciphertext blocks of a file written by encrypt()
NumBlocks(a) == (BodyLen(a) + ChunkSize - 1) \div ChunkSize

\* the k-th ciphertext block (from 0) of a file written by encrypt()
BlockOf(a, k) ==
  SubSeq(a, k * ChunkSize + 1, Min((k + 1) * ChunkSize, BodyLen(a)))

DigestOf(a) == SubSeq(a, BodyLen(a) + 1, Len(a))

RECURSIVE Flatten(_)
Flatten(ss) == IF ss = <<>> THEN <<>> ELSE Head(ss) \o Flatten(Tail(ss))

\* the file with its blocks i and j exchanged
SwapBlocks(a, i, j) ==
  Flatten([k \in 1..NumBlocks(a) |->
             IF k - 1 = i THEN BlockOf(a, j)
             ELSE IF k - 1 = j THEN BlockOf(a, i)
             ELSE BlockOf(a, k - 1)]) \o DigestOf(a)

\* the file without its last block
DropLastBlock(a) ==
  SubSeq(a, 1, (NumBlocks(a) - 1) * ChunkSize) \o DigestOf(a)

Tampered(kind, i, j, data) ==
  [t |-> [kind |-> kind, i |-> i, j |-> j], data |-> data]

\* the inputs decrypt() is run on, each with how it was derived
DecryptInputs(a) ==
  {Tampered("none", 0, 0, a)}
  \cup {Tampered("flip", i, 0, [a EXCEPT ![i] = Flip(a[i])]) :
          i \in 1..BodyLen(a)}
  \cup {Tampered("digest", i, 0, [a EXCEPT ![i] = Flip(a[i])]) :
          i \in (BodyLen(a) + 1)..Len(a)}
  \cup {Tampered("swap", i, j, SwapBlocks(a, i, j)) :
          i \in 0..(NumBlocks(a) - 1), j \in 0..(NumBlocks(a) - 1)}
  \cup {Tampered("nodigest", 0, 0, SubSeq(a, 1, BodyLen(a)))}
  \cup {Tampered("nolast", 0, 0, DropLastBlock(a)) : n \in 1..NumBlocks(a)}
  \cup {Tampered("short", m, 0, SubSeq(a, 1, m)) :
          m \in 0..(cfg.hashsize - 1)}

(* ------------------------------ decrypt ------------------------------- *)

\* data_t::resize(n) to a smaller size
Resize(buf, n) == SubSeq(buf, 1, n)

\* mutant: the failure of the seek to the hash is not checked
SeekFailed_Unchecked(s) == FALSE

\* if (!ifs) after the seek to the hash
SeekFailed(s) == s.fail

\* decrypt(): set up the hash state, the chunk buffer and the running nonce
StartDecrypt ==
  /\ pc = "e_done"
  /\ \E inp \in {d \in DecryptInputs(artifact) :
                   d.t.kind = "swap" => d.t.i < d.t.j} :
       /\ ifs' = OpenStream(inp.data)
       /\ tamper' = inp.t
  /\ ostr' = <<>>
  /\ state' = HashInit
  /\ ciphertext' = Zeros(ChunkSize)
  /\ running_nonce' = cfg.nonce
  /\ hash_saved' = <<>>
  /\ hash_pos' = 0
  /\ in_mac' = FALSE
  /\ engine' = <<>>
  /\ result' = "none"
  /\ pc' = "d_seek"
  /\ ostr_fail' = FALSE
  /\ UNCHANGED <<cfg, istr, plaintext, artifact, faults>>
  /\ UNCHANGED testvars

\* decrypt(): fetch the hash at the end of the file, go back to the start
DecFetchHash ==
  /\ pc = "d_seek"
  /\ LET sought == SeekEnd(ifs, -cfg.hashsize)
         rd     == AfterRead(sought, cfg.hashsize)
         saved  == Overlay(Zeros(cfg.hashsize),
                           ReadBytes(sought, cfg.hashsize))
     IN  IF SeekFailed(sought)
         THEN /\ ifs' = sought
              /\ result' = "can't seek to the end for hash"
              /\ pc' = "d_done"
              /\ UNCHANGED <<hash_saved, hash_pos>>
         ELSE /\ hash_pos' = Tell(sought)
              /\ hash_saved' = saved
              /\ IF rd.fail /\ rd.gcount # 0 /\ rd.gcount # cfg.hashsize
                 THEN /\ ifs' = rd
                      /\ result' = "read partial hash"
                      /\ pc' = "d_done"
                 ELSE /\ ifs' = SeekBeg(rd, 0)
                      /\ pc' = "d_loop"
                      /\ UNCHANGED result
  /\ in_mac' = FALSE
  /\ UNCHANGED <<ostr_fail, faults>>
  /\ UNCHANGED testvars
  /\ UNCHANGED <<cfg, istr, ostr, state, running_nonce, plaintext,
                 ciphertext, artifact, tamper, engine>>

\* mutant: the loop asks for blocksize_ bytes, forgetting the MAC
DecReadSize_NoMac == cfg.blocksize

\* the number of bytes the loop asks for, MACSIZE + blocksize_
DecReadSize == MACSIZE + cfg.blocksize

\* decrypt(): the loop condition, ifs.read(...) && !in_mac
DecLoopRead ==
  /\ pc = "d_loop"
  /\ ciphertext' = Overlay(ciphertext, ReadBytes(ifs, DecReadSize))
  /\ ifs' = AfterRead(ifs, DecReadSize)
  /\ pc' = IF ~ifs'.fail /\ ~in_mac THEN "d_body" ELSE "d_tail"
  /\ UNCHANGED <<ostr_fail, faults>>
  /\ UNCHANGED testvars
  /\ UNCHANGED <<cfg, istr, ostr, state, running_nonce, plaintext,
                 hash_saved, hash_pos, in_mac, result, artifact, tamper,
                 engine>>

\* mutant: the truncation at the hash keeps one byte too many
ChunkBeforeHash_OffByOne(buf, current_pos, hashpos) ==
  IF current_pos > hashpos
  THEN SubSeq(buf, 1, Len(buf) - (current_pos - hashpos) + 1)
  ELSE buf

\* the bytes of a full chunk that lie before the hash
ChunkBeforeHash(buf, current_pos, hashpos) ==
  IF current_pos > hashpos
  THEN Resize(buf, Len(buf) - (current_pos - hashpos))
  ELSE buf

\* mutant: a block whose tag does not verify is passed on
TagVerified_Ignored(r) == TRUE

\* sc_aead_.decrypt returned the plaintext of the block (it throws otherwise)
TagVerified(r) == r.ok

\* mutant: a full chunk is not fed to the hash
DecFeed_Skipped(st, ct) == st

\* crypto_generichash_update with the chunk at the end of the loop body
DecFeed(st, ct) == HashUpdate(st, ct)

\* mutant: the running nonce is not incremented after a block
DecNextNonce_Skipped(n) == n

\* running_nonce.increment() after a full block was decrypted
DecNextNonce(n) == NonceIncrement(n)

\* decrypt(): one pass of the loop body on a full chunk
DecLoopBody ==
  /\ pc = "d_body"
  /\ LET current_pos == Tell(ifs)
         ct == ChunkBeforeHash(ciphertext, current_pos, hash_pos)
         r  == AeadDecrypt(cfg.header, ct, cfg.key, running_nonce)
     IN  /\ ciphertext' = ct
         /\ in_mac' = (in_mac \/ current_pos > hash_pos)
         /\ engine' = Append(engine, [len |-> Len(ct), ok |-> r.ok])
         /\ IF TagVerified(r)
            THEN /\ running_nonce' = DecNextNonce(running_nonce)
                 /\ ostr' = ostr \o r.pt
                 /\ state' = DecFeed(state, ct)
                 /\ pc' = "d_loop"
                 /\ UNCHANGED result
            ELSE /\ result' = "decrypt failed"
                 /\ pc' = "d_done"
                 /\ UNCHANGED <<running_nonce, ostr, state>>
  /\ UNCHANGED <<ostr_fail, faults>>
  /\ UNCHANGED testvars
  /\ UNCHANGED <<cfg, istr, ifs, plaintext, hash_saved, hash_pos, artifact,
                 tamper>>

\* mutant: a final chunk no longer than the hash is not cleared
TailBeforeHash_NotCleared(buf, current_pos, hashpos) ==
  IF current_pos > hashpos
  THEN Resize(buf, Len(buf) - (current_pos - hashpos))
  ELSE IF current_pos = -1
  THEN IF Len(buf) > cfg.hashsize
       THEN Resize(buf, Len(buf) - cfg.hashsize)
       ELSE buf
  ELSE buf

\* the bytes of the final partial chunk that lie before the hash
TailBeforeHash(buf, current_pos, hashpos) ==
  IF current_pos > hashpos
  THEN Resize(buf, Len(buf) - (current_pos - hashpos))
  ELSE IF current_pos = -1
  THEN IF Len(buf) > cfg.hashsize
       THEN Resize(buf, Len(buf) - cfg.hashsize)
       ELSE <<>>
  ELSE buf

\* decrypt(): the final partial chunk, if one was read
DecFinalChunk ==
  /\ pc = "d_tail"
  /\ LET s == ifs.gcount
     IN  IF ~in_mac /\ s # 0
         THEN LET ct == TailBeforeHash(Resize(ciphertext, s), Tell(ifs),
                                       hash_pos)
                  r  == AeadDecrypt(cfg.header, ct, cfg.key, running_nonce)
              IN  /\ ciphertext' = ct
                  /\ engine' = Append(engine, [len |-> Len(ct), ok |-> r.ok])
                  /\ IF r.ok
                     THEN /\ ostr' = ostr \o r.pt
                          /\ state' = HashUpdate(state, ct)
                          /\ pc' = "d_hash"
                          /\ UNCHANGED result
                     ELSE /\ result' = "decrypt failed"
                          /\ pc' = "d_done"
                          /\ UNCHANGED <<ostr, state>>
         ELSE /\ pc' = "d_hash"
              /\ UNCHANGED <<ciphertext, engine, ostr, state, result>>
  /\ UNCHANGED <<ostr_fail, faults>>
  /\ UNCHANGED testvars
  /\ UNCHANGED <<cfg, istr, ifs, running_nonce, plaintext, hash_saved,
                 hash_pos, in_mac, artifact, tamper>>

\* decrypt(): finish the hash and compare it with the saved one
DecCompareHash ==
  /\ pc = "d_hash"
  /\ result' = IF HashFinal(state, cfg.hashkey, cfg.hashsize) # hash_saved
               THEN "hash mismatch"
               ELSE "ok"
  /\ pc' = "d_done"
  /\ UNCHANGED <<ostr_fail, faults>>
  /\ UNCHANGED testvars
  /\ UNCHANGED <<cfg, istr, ifs, ostr, state, running_nonce, plaintext,
                 ciphertext, hash_saved, hash_pos, in_mac, artifact, tamper,
                 engine>>

Next ==
  \/ StartEncrypt
  \/ EncLoopBody
  \/ EncLoopExit
  \/ EncFinalChunk
  \/ EncWriteHash
  \/ StartDecrypt
  \/ DecFetchHash
  \/ DecLoopRead
  \/ DecLoopBody
  \/ DecFinalChunk
  \/ DecCompareHash

Spec == Init /\ [][Next]_vars

(* --------------- decrypt by a differently configured object ----------- *)

\* the configurations that differ from c in exactly one parameter
MismatchedConfigs(c) ==
  {[what |-> "key", was |-> c.key, cfg |-> [c EXCEPT !.key = c.key + 1]]}
  \cup {[what |-> "hashkey", was |-> c.hashkey,
         cfg |-> [c EXCEPT !.hashkey = c.hashkey + 1]]}
  \cup {[what |-> "nonce", was |-> c.nonce, cfg |-> [c EXCEPT !.nonce = n]] :
          n \in {NonceIncrement(c.nonce),
                 (c.nonce + NonceMod - 1) % NonceMod}}
  \cup {[what |-> "blocksize", was |-> c.blocksize,
         cfg |-> [c EXCEPT !.blocksize = b]] :
          b \in (1..(MaxBlock + 1)) \ {c.blocksize}}
  \cup {[what |-> "hashsize", was |-> c.hashsize,
         cfg |-> [c EXCEPT !.hashsize = h]] :
          h \in (HASHSIZE_MIN..HASHSIZE_MAX) \ {c.hashsize}}

\* a FileCryptor constructed with one parameter changed starts decrypt()
\* on the file as written
StartDecryptMismatched ==
  /\ pc = "e_done"
  /\ \E m \in MismatchedConfigs(cfg) :
       /\ cfg' = m.cfg
       /\ tamper' = [kind |-> m.what, i |-> m.was, j |-> 0]
  /\ ifs' = OpenStream(artifact)
  /\ ostr' = <<>>
  /\ ostr_fail' = FALSE
  /\ state' = HashInit
  /\ ciphertext' = Zeros(MACSIZE + cfg'.blocksize)
  /\ running_nonce' = cfg'.nonce
  /\ hash_saved' = <<>>
  /\ hash_pos' = 0
  /\ in_mac' = FALSE
  /\ engine' = <<>>
  /\ result' = "none"
  /\ pc' = "d_seek"
  /\ UNCHANGED <<istr, plaintext, artifact, faults>>
  /\ UNCHANGED testvars

NextMismatch ==
  \/ StartEncrypt
  \/ EncLoopBody
  \/ EncLoopExit
  \/ EncFinalChunk
  \/ EncWriteHash
  \/ StartDecryptMismatched
  \/ DecFetchHash
  \/ DecLoopRead
  \/ DecLoopBody
  \/ DecFinalChunk
  \/ DecCompareHash

SpecMismatch == Init /\ [][NextMismatch]_vars

(* ---------------------------- construction --------------------------- *)

\* mutant: the upper bound of the hash key size is not checked
CtorError_NoUpperBound(c) ==
  IF c.keysize # KEYSIZE_AEAD THEN "wrong key size"
  ELSE IF c.blocksize < 1 THEN "wrong blocksize"
  ELSE IF c.hashkeysize < HASHKEYSIZE_MIN THEN "hash key too small"
  ELSE "none"

\* the sanity checks of the constructor: the error thrown, or "none"
CtorError(c) ==
  IF c.keysize # KEYSIZE_AEAD THEN "wrong key size"
  ELSE IF c.blocksize < 1 THEN "wrong blocksize"
  ELSE IF c.hashkeysize < HASHKEYSIZE_MIN THEN "hash key too small"
  ELSE IF c.hashkeysize > HASHKEYSIZE_MAX THEN "hash key too big"
  ELSE "none"

\* the members as the initialiser list of the constructor stores them, from
\* arguments of any size; the body of the constructor has not run yet
InitCtor ==
  /\ cfg \in [key : {1},
              keysize : (KEYSIZE_AEAD - 1)..(KEYSIZE_AEAD + 1),
              nonce : {0}, header : {<<>>},
              blocksize : 0..MaxBlock,
              hashkey : {1},
              hashkeysize : {HASHKEYSIZE_MIN - 1, HASHKEYSIZE_MIN,
                             HASHKEYSIZE_MAX, HASHKEYSIZE_MAX + 1},
              hashsize : (HASHSIZE_MIN - 1)..(HASHSIZE_MAX + 1)]
  /\ pc = "new"
  /\ istr = OpenStream(<<>>)
  /\ ifs = OpenStream(<<>>)
  /\ ostr = <<>>
  /\ state = HashInit
  /\ running_nonce = 0
  /\ plaintext = <<>>
  /\ ciphertext = <<>>
  /\ hash_saved = <<>>
  /\ hash_pos = 0
  /\ in_mac = FALSE
  /\ result = "none"
  /\ artifact = <<>>
  /\ tamper = NoTamper
  /\ engine = <<>>
  /\ ostr_fail = FALSE
  /\ faults = {}
  /\ other = <<>>
  /\ pk = <<>>

\* FileCryptor::FileCryptor: the body of the constructor
Construct ==
  /\ pc = "new"
  /\ IF CtorError(cfg) # "none"
     THEN /\ result' = CtorError(cfg)
          /\ pc' = "ctor_failed"
     ELSE /\ pc' = "idle"
          /\ UNCHANGED result
  /\ UNCHANGED <<cfg, istr, ostr, state, running_nonce, plaintext, artifact,
                 ostr_fail, faults>>
  /\ UNCHANGED decvars
  /\ UNCHANGED testvars

NextCtor ==
  \/ Construct
  \/ StartEncrypt

SpecCtor == InitCtor /\ [][NextCtor]_vars

(* --------------------------- repeated calls --------------------------- *)

\* one FileCryptor, used for call after call
InitRepeat ==
  /\ Init
  /\ cfg.blocksize = CallBlock
  /\ cfg.hashsize = HASHSIZE_MIN
  /\ cfg.nonce = NonceMod - 1

\* the call has returned or thrown and the caller makes the next call on the
\* same FileCryptor; what the last call left behind is still there
NextCall ==
  /\ pc \in {"e_done", "e_failed", "d_done"}
  /\ pc' = "idle"
  /\ UNCHANGED <<cfg, istr, ostr, state, running_nonce, plaintext, result,
                 artifact, ostr_fail, faults>>
  /\ UNCHANGED decvars
  /\ UNCHANGED testvars

\* decrypt() of the file as encrypt() wrote it
StartDecryptIntact ==
  /\ StartDecrypt
  /\ tamper' = NoTamper

NextRepeat ==
  \/ StartEncrypt
  \/ EncLoopBody
  \/ EncLoopExit
  \/ EncFinalChunk
  \/ EncWriteHash
  \/ StartDecryptIntact
  \/ DecFetchHash
  \/ DecLoopRead
  \/ DecLoopBody
  \/ DecFinalChunk
  \/ DecCompareHash
  \/ NextCall

SpecRepeat == InitRepeat /\ [][NextRepeat]_vars

(* ----------------------------- I/O faults ----------------------------- *)

\* a valid FileCryptor whose next encrypt() meets one I/O fault: an error
\* of the source while reading, or of the sink while writing
InitIO ==
  /\ cfg \in [key : {1}, nonce : {0, NonceMod - 1}, header : {<<>>},
              blocksize : 1..MaxBlock, hashkey : {1},
              hashsize : HASHSIZE_MIN..HASHSIZE_MAX]
  /\ pc = "idle"
  /\ istr = OpenStream(<<>>)
  /\ ifs = OpenStream(<<>>)
  /\ ostr = <<>>
  /\ state = HashInit
  /\ running_nonce = 0
  /\ plaintext = <<>>
  /\ ciphertext = <<>>
  /\ hash_saved = <<>>
  /\ hash_pos = 0
  /\ in_mac = FALSE
  /\ result = "none"
  /\ artifact = <<>>
  /\ tamper = NoTamper
  /\ engine = <<>>
  /\ ostr_fail = FALSE
  /\ faults \in {{"read"}, {"write"}}
  /\ other = <<>>
  /\ pk = <<>>

NextIO ==
  \/ StartEncrypt
  \/ EncLoopBody
  \/ EncLoopExit
  \/ EncReadError
  \/ EncFinalChunk
  \/ EncWriteHash

SpecIO == InitIO /\ [][NextIO]_vars

(* -------------------------- interleaved calls ------------------------- *)

\* the locals and streams of the call that is running
Self ==
  [pc |-> pc, istr |-> istr, ifs |-> ifs, ostr |-> ostr, state |-> state,
   running_nonce |-> running_nonce, plaintext |-> plaintext,
   ciphertext |-> ciphertext, hash_saved |-> hash_saved,
   hash_pos |-> hash_pos, in_mac |-> in_mac, result |-> result,
   artifact |-> artifact, tamper |-> tamper, engine |-> engine,
   ostr_fail |-> ostr_fail, faults |-> faults]

\* mutant: the running nonce is one object that both calls use
ResumedNonce_Shared(own, current) == current

\* running_nonce is a local of the call: a resumed call finds its own
ResumedNonce(own, current) == own

\* two threads call encrypt()/decrypt() on one FileCryptor, each on streams
\* of its own; neither call has started
InitConc ==
  /\ cfg = [key |-> 1, nonce |-> NonceMod - 1, header |-> <<>>,
            blocksize |-> CallBlock, hashkey |-> 1, hashsize |-> HASHSIZE_MIN]
  /\ pc = "idle"
  /\ istr = OpenStream(<<>>)
  /\ ifs = OpenStream(<<>>)
  /\ ostr = <<>>
  /\ state = HashInit
  /\ running_nonce = 0
  /\ plaintext = <<>>
  /\ ciphertext = <<>>
  /\ hash_saved = <<>>
  /\ hash_pos = 0
  /\ in_mac = FALSE
  /\ result = "none"
  /\ artifact = <<>>
  /\ tamper = NoTamper
  /\ engine = <<>>
  /\ ostr_fail = FALSE
  /\ faults = {}
  /\ other = Self
  /\ pk = <<>>

\* the scheduler suspends the running call and resumes the other one
SwitchCall ==
  /\ other' = Self
  /\ pc' = other.pc
  /\ istr' = other.istr
  /\ ifs' = other.ifs
  /\ ostr' = other.ostr
  /\ state' = other.state
  /\ running_nonce' = ResumedNonce(other.running_nonce, running_nonce)
  /\ plaintext' = other.plaintext
  /\ ciphertext' = other.ciphertext
  /\ hash_saved' = other.hash_saved
  /\ hash_pos' = other.hash_pos
  /\ in_mac' = other.in_mac
  /\ result' = other.result
  /\ artifact' = other.artifact
  /\ tamper' = other.tamper
  /\ engine' = other.engine
  /\ ostr_fail' = other.ostr_fail
  /\ faults' = other.faults
  /\ UNCHANGED <<cfg, pk>>

\* encrypt() of one of the shorter plaintexts
StartEncryptShort ==
  /\ StartEncrypt
  /\ Len(istr'.data) <= MaxConcLen

NextConc ==
  \/ StartEncryptShort
  \/ EncLoopBody
  \/ EncLoopExit
  \/ EncFinalChunk
  \/ EncWriteHash
  \/ StartDecryptIntact
  \/ DecFetchHash
  \/ DecLoopRead
  \/ DecLoopBody
  \/ DecFinalChunk
  \/ DecCompareHash
  \/ SwitchCall

SpecConc == InitConc /\ [][NextConc]_vars

(* ------------------- CryptorPK: test_of_correctness ------------------- *)

\* KeyPair {}: a fresh pair of a public and a private key
KeyPair(who) ==
  [pubkey  |-> [of |-> who, part |-> "pub"],
   privkey |-> [of |-> who, part |-> "priv"]]

keypair_alice == KeyPair(2)

keypair_bob == KeyPair(3)

\* the key two parties share: the same from either party's private key and
\* the public key of the other
SharedKey(pubkey, privkey) == pubkey.of * privkey.of

\* CryptorPK::encrypt: the MAC, then the encrypted plaintext
PkEncrypt(plainblob, pubkey, privkey, nonce) ==
  LET key  == SharedKey(pubkey, privkey)
      body == AeadBody(plainblob, key, nonce)
  IN  [j \in 1..PK_MACSIZE |-> MkByte("tag", j, 0, key, nonce, body)] \o body

\* CryptorPK::decrypt: [ok, pt]; throws when the MAC does not verify
PkDecrypt(ciphertext_with_mac, privkey, pubkey, nonce) ==
  LET key  == SharedKey(pubkey, privkey)
      n    == Len(ciphertext_with_mac)
      body == SubSeq(ciphertext_with_mac, PK_MACSIZE + 1, n)
      mac  == SubSeq(ciphertext_with_mac, 1, PK_MACSIZE)
  IN  IF \/ n < PK_MACSIZE
         \/ mac # [j \in 1..PK_MACSIZE |->
                     MkByte("tag", j, 0, key, nonce, body)]
      THEN [ok |-> FALSE, pt |-> <<>>]
      ELSE [ok |-> TRUE,
            pt |-> [j \in 1..Len(body) |->
                      PtByte((body[j].v + ByteMod - KeyStream(key, nonce, j))
                             % ByteMod)]]

\* mutant: bob decrypts with his own public key
BobDecryptKeys_Own ==
  [privkey |-> keypair_bob.privkey, pubkey |-> keypair_bob.pubkey]

\* step 2: the keys bob decrypts the message from alice with
BobDecryptKeys ==
  [privkey |-> keypair_bob.privkey, pubkey |-> keypair_alice.pubkey]

\* the locals of test_of_correctness before step 1; first_nonce records the
\* value the nonce was constructed with
InitPK ==
  /\ cfg \in [key : {1}, nonce : {0}, header : {<<>>},
              blocksize : {1}, hashkey : {1}, hashsize : {HASHSIZE_MIN}]
  /\ pc = "idle"
  /\ istr = OpenStream(<<>>)
  /\ ifs = OpenStream(<<>>)
  /\ ostr = <<>>
  /\ state = HashInit
  /\ running_nonce = 0
  /\ plaintext = <<>>
  /\ ciphertext = <<>>
  /\ hash_saved = <<>>
  /\ hash_pos = 0
  /\ in_mac = FALSE
  /\ result = "none"
  /\ artifact = <<>>
  /\ tamper = NoTamper
  /\ engine = <<>>
  /\ ostr_fail = FALSE
  /\ faults = {}
  /\ other = <<>>
  /\ pk \in [step : {"start"},
             plainblob : Plaintexts,
             nonce : {0, NonceMod - 1},
             first_nonce : {0, NonceMod - 1},
             ciphertext_from_alice_to_bob : {<<>>},
             decrypted_by_bob_from_alice : {<<>>},
             ciphertext_from_bob_to_alice : {<<>>},
             decrypted_by_alice_from_bob : {<<>>},
             checks : {<<>>}]
  /\ pk.nonce = pk.first_nonce

fcvars == <<cfg, pc, istr, ifs, ostr, state, running_nonce, plaintext,
            ciphertext, hash_saved, hash_pos, in_mac, result, artifact,
            tamper, engine, ostr_fail, faults, other>>

\* step 1: alice encrypts the message for bob
PkAliceEncrypts ==
  /\ pk.step = "start"
  /\ pk' = [pk EXCEPT
              !.ciphertext_from_alice_to_bob =
                 PkEncrypt(pk.plainblob, keypair_bob.pubkey,
                           keypair_alice.privkey, pk.nonce),
              !.step = "sent"]
  /\ UNCHANGED fcvars

\* steps 2 and 3: bob decrypts the message; the test compares
PkBobDecrypts ==
  /\ pk.step = "sent"
  /\ LET r == PkDecrypt(pk.ciphertext_from_alice_to_bob,
                        BobDecryptKeys.privkey, BobDecryptKeys.pubkey,
                        pk.nonce)
     IN  IF r.ok
         THEN pk' = [pk EXCEPT
                       !.decrypted_by_bob_from_alice = r.pt,
                       !.checks = Append(pk.checks, pk.plainblob = r.pt),
                       !.step = "received"]
         ELSE pk' = [pk EXCEPT !.step = "thrown"]
  /\ UNCHANGED fcvars

\* step 4: bob increments the nonce and echoes the message back to alice
PkBobReplies ==
  /\ pk.step = "received"
  /\ LET nonce == NonceIncrement(pk.nonce)
     IN  pk' = [pk EXCEPT
                  !.nonce = nonce,
                  !.ciphertext_from_bob_to_alice =
                     PkEncrypt(pk.decrypted_by_bob_from_alice,
                               keypair_alice.pubkey, keypair_bob.privkey,
                               nonce),
                  !.step = "replied"]
  /\ UNCHANGED fcvars

\* steps 5 and 6: alice decrypts the reply; the test compares and returns
PkAliceDecrypts ==
  /\ pk.step = "replied"
  /\ LET r == PkDecrypt(pk.ciphertext_from_bob_to_alice,
                        keypair_alice.privkey, keypair_bob.pubkey, pk.nonce)
     IN  IF r.ok
         THEN pk' = [pk EXCEPT
                       !.decrypted_by_alice_from_bob = r.pt,
                       !.checks = Append(pk.checks, pk.plainblob = r.pt),
                       !.step = "returned"]
         ELSE pk' = [pk EXCEPT !.step = "thrown"]
  /\ UNCHANGED fcvars

NextPK ==
  \/ PkAliceEncrypts
  \/ PkBobDecrypts
  \/ PkBobReplies
  \/ PkAliceDecrypts

SpecPK == InitPK /\ [][NextPK]_vars

(* -------------------- inputs of every length -------------------------- *)

\* decrypt() is run on the first m bytes of the file encrypt() wrote, for
\* every m from hashsize on: an input of any length whose blocks verify
StartDecryptPrefix ==
  /\ pc = "e_done"
  /\ \E m \in cfg.hashsize..Len(artifact) :
       /\ ifs' = OpenStream(SubSeq(artifact, 1, m))
       /\ tamper' = [kind |-> "prefix", i |-> m, j |-> 0]
  /\ ostr' = <<>>
  /\ state' = HashInit
  /\ ciphertext' = Zeros(ChunkSize)
  /\ running_nonce' = cfg.nonce
  /\ hash_saved' = <<>>
  /\ hash_pos' = 0
  /\ in_mac' = FALSE
  /\ engine' = <<>>
  /\ result' = "none"
  /\ pc' = "d_seek"
  /\ ostr_fail' = FALSE
  /\ UNCHANGED <<cfg, istr, plaintext, artifact, faults>>
  /\ UNCHANGED testvars

NextPrefix ==
  \/ StartEncrypt
  \/ EncLoopBody
  \/ EncLoopExit
  \/ EncFinalChunk
  \/ EncWriteHash
  \/ StartDecryptPrefix
  \/ DecFetchHash
  \/ DecLoopRead
  \/ DecLoopBody
  \/ DecFinalChunk
  \/ DecCompareHash

SpecPrefix == Init /\ [][NextPrefix]_vars

(* ------------------------------ properties ---------------------------- *)

\* the plaintext that was handed to encrypt()
P == istr.data

\* decrypt() has returned or thrown
DecDone == pc = "d_done"

\* the plaintext chunk k (from 0) that encrypt() reads
ChunkOf(k) ==
  SubSeq(P, k * cfg.blocksize + 1, Min((k + 1) * cfg.blocksize, Len(P)))

\* number of chunks of the plaintext, ceil(L / blocksize)
NumChunks == (Len(P) + cfg.blocksize - 1) \div cfg.blocksize

\* the nonce of block k: the initial nonce incremented k times
NonceAt(k) == (cfg.nonce + k) % NonceMod

\* the ciphertext blocks a file for P consists of, in order
ExpectedBlocks ==
  Flatten([k \in 1..NumChunks |->
             AeadEncrypt(cfg.header, ChunkOf(k - 1), cfg.key, NonceAt(k - 1))])

\* C1: decrypt of the file written by encrypt(P) succeeds and the sink
\* receives exactly P, for every valid configuration and every plaintext.
C1_RoundTrip ==
  (DecDone /\ tamper.kind = "none") => (result = "ok" /\ ostr = P)

\* C2: for every plaintext whose length is a multiple of blocksize (the
\* empty one included) the file is the full blocks plus the digest, and
\* decrypt of it succeeds and reproduces the plaintext.
C2_AlignedRoundTrip ==
  (DecDone /\ tamper.kind = "none" /\ Len(P) % cfg.blocksize = 0)
    => /\ Len(artifact) = NumChunks * ChunkSize + cfg.hashsize
       /\ result = "ok"
       /\ ostr = P

\* C3: for every plaintext whose length is not a multiple of blocksize the
\* file is the full blocks, one short block of MACSIZE + remainder bytes and
\* the digest; decrypt hands exactly that short block to the AEAD (no digest
\* byte, no ciphertext byte dropped), feeds exactly the ciphertext to the
\* hash and reproduces the plaintext.
C3_NonAlignedRoundTrip ==
  (DecDone /\ tamper.kind = "none" /\ Len(P) % cfg.blocksize # 0)
    => /\ Len(artifact) = (NumChunks - 1) * ChunkSize + MACSIZE
                          + (Len(P) % cfg.blocksize) + cfg.hashsize
       /\ result = "ok"
       /\ ostr = P
       /\ Len(engine) = NumChunks
       /\ engine[NumChunks] =
            [len |-> MACSIZE + (Len(P) % cfg.blocksize), ok |-> TRUE]
       /\ state = SubSeq(artifact, 1, BodyLen(artifact))

C3_Witness ==
  /\ DecDone /\ tamper.kind = "none" /\ result = "ok"
  /\ Len(P) > cfg.blocksize
  /\ Len(P) % cfg.blocksize = 1

\* C4: a successful encrypt of L bytes writes one block of MACSIZE + chunk
\* length bytes per blocksize-byte chunk, in order (no empty block when L is
\* a multiple of blocksize), then one digest of hashsize bytes and nothing
\* else: L + ceil(L / blocksize) * MACSIZE + hashsize bytes in all.
C4_ArtifactLayout ==
  (pc = "e_done")
    => /\ result = "ok"
       /\ ostr = artifact
       /\ SubSeq(artifact, 1, BodyLen(artifact)) = ExpectedBlocks
       /\ \A k \in 0..(NumChunks - 1) :
            Len(BlockOf(artifact, k)) = MACSIZE + Len(ChunkOf(k))
       /\ Len(artifact) = Len(P) + NumChunks * MACSIZE + cfg.hashsize

C4_Witness ==
  /\ pc = "e_done"
  /\ Len(P) = 2 * cfg.blocksize

\* C5: the digest encrypt appends is the keyed hash (hash key, hashsize) of
\* all the ciphertext blocks it wrote, in order, each once, without itself.
C5_DigestCoversBlocks ==
  (pc = "e_done")
    => DigestOf(artifact) =
         HashFinal(SubSeq(artifact, 1, BodyLen(artifact)),
                   cfg.hashkey, cfg.hashsize)

C5_Witness ==
  /\ pc = "e_done"
  /\ Len(P) > cfg.blocksize
  /\ Len(P) % cfg.blocksize # 0

\* the block (from 0) that holds position i (from 1) of the file
BlockIndex(i) == (i - 1) \div ChunkSize

\* C6: when one byte before the digest region of a valid file is changed,
\* decrypt fails: the tag check of the block holding that byte throws, after
\* the blocks before it were delivered; decrypt never succeeds.
C6_BlockTamperDetected ==
  (DecDone /\ tamper.kind = "flip")
    => /\ result = "decrypt failed"
       /\ ostr = SubSeq(P, 1, BlockIndex(tamper.i) * cfg.blocksize)

C6_Witness ==
  /\ DecDone /\ tamper.kind = "flip"
  /\ NumBlocks(artifact) >= 2
  /\ BlockIndex(tamper.i) = 1
  /\ result = "decrypt failed"

\* every call decrypt() made to the AEAD verified its tag
NoTagFailure == \A c \in 1..Len(engine) : engine[c].ok

\* C7: when only the trailing digest of a valid file is altered, no block's
\* tag check fails and decrypt fails at the final comparison of the hashes.
C7_DigestTamperDetected ==
  (DecDone /\ tamper.kind = "digest")
    => (NoTagFailure /\ result = "hash mismatch")

\* C8: exchanging two distinct ciphertext blocks i < j of a valid file makes
\* decrypt fail: block j is not accepted under the running nonce of position
\* i, so the tag check at position i throws after the blocks before it.
C8_ReorderDetected ==
  (DecDone /\ tamper.kind = "swap"
     /\ BlockOf(artifact, tamper.i) # BlockOf(artifact, tamper.j))
    => /\ result = "decrypt failed"
       /\ ostr = SubSeq(P, 1, tamper.i * cfg.blocksize)

C8_Witness ==
  /\ DecDone /\ tamper.kind = "swap"
  /\ BlockOf(artifact, tamper.i) # BlockOf(artifact, tamper.j)
  /\ tamper.i = 1
  /\ result = "decrypt failed"

\* C9: a valid file without its trailing digest, and a valid file without
\* its last ciphertext block (digest kept), both make decrypt fail.
C9_TruncationDetected ==
  (DecDone /\ tamper.kind \in {"nodigest", "nolast"})
    => result \notin {"ok", "none"}

C9_Witness ==
  /\ DecDone /\ tamper.kind = "nodigest"
  /\ Len(ifs.data) > cfg.hashsize
  /\ Len(P) % cfg.blocksize # 0
  /\ result = "decrypt failed"

\* C10: on an input of fewer than hashsize bytes (an empty input included)
\* decrypt throws when it looks for the hash: it never reaches the block
\* loop, decrypts nothing and writes nothing.
C10_TooShortInput ==
  (pc \in {"d_seek", "d_loop", "d_body", "d_tail", "d_hash", "d_done"}
     /\ Len(ifs.data) < cfg.hashsize)
    => /\ pc \in {"d_seek", "d_done"}
       /\ engine = <<>>
       /\ ostr = <<>>
       /\ pc = "d_done" => result = "can't seek to the end for hash"

C10_Witness ==
  /\ DecDone
  /\ Len(ifs.data) < cfg.hashsize
  /\ Len(ifs.data) > 0
  /\ result = "can't seek to the end for hash"

\* the parameters a FileCryptor is constructed with
ConfigParams == {"key", "nonce", "hashkey", "blocksize", "hashsize"}

\* C11: decrypt of a file by a FileCryptor whose configuration differs from
\* the encrypting one in one of blocksize, hashsize, key, initial nonce or
\* hash key fails, for every plaintext; it never succeeds.
C11_MismatchDetected ==
  (DecDone /\ tamper.kind \in ConfigParams) => result \notin {"ok", "none"}

\* C12: constructing a FileCryptor with a hashsize outside
\* [HASHSIZE_MIN, HASHSIZE_MAX] fails at construction, so no encrypt or
\* decrypt call ever runs with a hashsize the hash would reject.
C12_HashsizeRejected ==
  (pc # "new" /\ cfg.hashsize \notin HASHSIZE_MIN..HASHSIZE_MAX)
    => pc = "ctor_failed"

\* C13: construction fails whenever the AEAD key size differs from
\* KEYSIZE_AEAD, or blocksize is 0, or the hash key size is below
\* HASHKEYSIZE_MIN or above HASHKEYSIZE_MAX.
C13_ConstructionValidation ==
  (pc # "new"
     /\ \/ cfg.keysize # KEYSIZE_AEAD
        \/ cfg.blocksize = 0
        \/ cfg.hashkeysize < HASHKEYSIZE_MIN
        \/ cfg.hashkeysize > HASHKEYSIZE_MAX)
    => (pc = "ctor_failed" /\ result \notin {"none", "ok"})

C13_Witness ==
  /\ pc = "ctor_failed"
  /\ cfg.keysize = KEYSIZE_AEAD
  /\ cfg.blocksize = 0
  /\ result = "wrong blocksize"

\* the file a newly constructed FileCryptor of this configuration writes for
\* the plaintext of the current call: its blocks, then the hash over them
FreshArtifact ==
  ExpectedBlocks \o HashFinal(HashUpdate(HashInit, ExpectedBlocks),
                              cfg.hashkey, cfg.hashsize)

\* C14: no encrypt or decrypt call, successful or failed, changes the stored
\* key, initial nonce, blocksize, hash key or hashsize; so after any sequence
\* of earlier calls, encrypt of P writes the file a fresh FileCryptor of the
\* same configuration writes for P.
C14_IndependentCalls ==
  /\ [][cfg' = cfg]_vars
  /\ [](pc = "e_done" => (result = "ok" /\ artifact = FreshArtifact))

\* an encrypt of a non-empty plaintext has completed after an earlier
\* decrypt on the same FileCryptor ran the engine
C14_Witness ==
  /\ pc = "e_done"
  /\ engine # <<>>
  /\ Len(P) > 0

\* C15: if a read from the source fails with an I/O error (not the end of
\* the stream), encrypt surfaces an error and does not complete successfully;
\* it never writes a hash that closes a file for the bytes read before.
C15_ReadErrorSurfaced ==
  istr.bad => (pc # "e_done" /\ result # "ok")

\* the errors encrypt() throws after a failed write
WriteErrors ==
  {"error writing full chunk to file", "error writing final chunk to file",
   "error writing hash to file"}

\* s is a proper prefix of t
IsProperPrefix(s, t) == Len(s) < Len(t) /\ s = SubSeq(t, 1, Len(s))

\* C16: if a write to the sink fails (full block, final partial block or
\* hash), encrypt aborts with an error at that write: no later block is
\* encrypted or written, no hash is written after a failed block write, and
\* what the sink received is a prefix of the valid file.
C16_WriteFailureAborts ==
  /\ ostr_fail => /\ pc = "e_failed"
                  /\ result \in WriteErrors
                  /\ IsProperPrefix(ostr, FreshArtifact)
  /\ pc = "e_failed" => ostr_fail

\* the write of a full block other than the first failed part-way
C16_Witness ==
  /\ pc = "e_failed"
  /\ ostr_fail
  /\ result = "error writing full chunk to file"
  /\ Len(ostr) > MACSIZE + cfg.blocksize
  /\ Len(ostr) % (MACSIZE + cfg.blocksize) # 0

\* the ciphertext blocks of a file for the plaintext pl
RECURSIVE BlocksFor(_, _)
BlocksFor(pl, k) ==
  IF Len(pl) = 0 THEN <<>>
  ELSE LET n == Min(cfg.blocksize, Len(pl))
       IN  AeadEncrypt(cfg.header, SubSeq(pl, 1, n), cfg.key, NonceAt(k))
             \o BlocksFor(SubSeq(pl, n + 1, Len(pl)), k + 1)

\* the file encrypt() writes for pl when it runs alone
ArtifactFor(pl) ==
  BlocksFor(pl, 0) \o HashFinal(HashUpdate(HashInit, BlocksFor(pl, 0)),
                                cfg.hashkey, cfg.hashsize)

\* what a call that ran alone has written and returned: encrypt() the file
\* for its plaintext, decrypt() of that file the plaintext, with the outcome
\* decrypt() has alone for plaintexts that do and do not end on a block
AloneOutcome(c) ==
  /\ c.pc = "e_done" =>
       /\ c.result = "ok"
       /\ c.ostr = ArtifactFor(c.istr.data)
       /\ c.artifact = c.ostr
  /\ c.pc = "d_done" =>
       /\ c.ostr = c.istr.data
       /\ c.result = IF Len(c.istr.data) % cfg.blocksize = 0
                     THEN "decrypt failed" ELSE "ok"
  /\ c.pc # "e_failed"

\* a call running alone ends as AloneOutcome says
AloneBaseline == tamper.kind = "none" => AloneOutcome(Self)

\* C17: when two encrypt/decrypt calls on the same FileCryptor run
\* interleaved on distinct, unshared streams, the output and the outcome of
\* each call equal those of running that call alone.
C17_InterleavedCalls ==
  /\ AloneOutcome(Self)
  /\ AloneOutcome(other)

\* one call has completed a decrypt of more than one block while the other,
\* started on a different plaintext, is in the middle of its encrypt loop
C17_Witness ==
  /\ pc = "d_done"
  /\ Len(engine) > 1
  /\ other.pc = "e_loop"
  /\ Len(other.ostr) > 0
  /\ other.istr.data # istr.data

C19_NonceDiscipline ==
  /\ pc \in {"e_loop", "e_final"} =>
       running_nonce = NonceAt(Len(ostr) \div ChunkSize)
  /\ pc \in {"e_loop", "e_final", "e_hash"} =>
       ostr = SubSeq(ExpectedBlocks, 1, Len(ostr))
  /\ pc \in {"d_seek", "d_loop", "d_body", "d_tail"} =>
       running_nonce = NonceAt(Len(engine))
  /\ \A i, j \in 0..(NumChunks - 1) : i # j => NonceAt(i) # NonceAt(j)

\* decrypt of an untouched file is about to run the engine on its third
\* block; the nonce has wrapped around
C19_Witness ==
  /\ pc = "d_body"
  /\ tamper.kind = "none"
  /\ Len(engine) = 2
  /\ cfg.nonce = NonceMod - 1
  /\ running_nonce = 1

\* the offset in the input file behind the chunk of the i-th engine call
RECURSIVE EngineOffset(_)
EngineOffset(i) ==
  IF i = 0 THEN 0 ELSE EngineOffset(i - 1) + engine[i].len

\* the bytes of the input file that make up the i-th chunk
EngineChunk(i) == SubSeq(ifs.data, EngineOffset(i - 1) + 1, EngineOffset(i))

\* the verification of the i-th chunk under the nonce of block i - 1
EngineResult(i) ==
  AeadDecrypt(cfg.header, EngineChunk(i), cfg.key, NonceAt(i - 1))

\* the plaintexts of the verified ones among the first n chunks, in order
RECURSIVE VerifiedPlain(_)
VerifiedPlain(n) ==
  IF n = 0 THEN <<>>
  ELSE VerifiedPlain(n - 1)
         \o (IF EngineResult(n).ok THEN EngineResult(n).pt ELSE <<>>)

\* C20: at every point of a decrypt call the sink holds exactly the
\* concatenation, in order, of the plaintexts of the blocks whose tag has
\* been verified so far; when a block's tag fails, decrypt aborts at once,
\* writing nothing for that block or any later one and without reaching the
\* comparison of the hashes.
C20_VerifiedPrefixSink ==
  pc \in {"d_seek", "d_loop", "d_body", "d_tail", "d_hash", "d_done"} =>
    /\ ostr = VerifiedPlain(Len(engine))
    /\ \A i \in 1..Len(engine) :
         /\ engine[i].ok = EngineResult(i).ok
         /\ ~engine[i].ok => /\ i = Len(engine)
                             /\ pc = "d_done"
                             /\ result = "decrypt failed"

\* the tag of the second or a later block of a file with a flipped bit did
\* not verify; the sink holds the plaintext of the blocks before it
C20_Witness ==
  /\ pc = "d_done"
  /\ tamper.kind = "flip"
  /\ Len(engine) >= 2
  /\ ~engine[Len(engine)].ok
  /\ engine[Len(engine)].len >= MACSIZE
  /\ Len(ostr) > 0
  /\ ostr = SubSeq(P, 1, Len(ostr))

\* C21: when the terminal short chunk decrypt obtains at the end of the input
\* has length <= hashsize (it is made of hash bytes only), decrypt skips
\* decryption for it: the engine is not invoked on an empty or hash-only
\* buffer, nothing is written to the sink for it, and decrypt goes on to
\* the comparison of the hashes.
C21_DigestOnlyChunkSkipped ==
  [][(pc = "d_tail" /\ ~in_mac
        /\ ifs.gcount # 0 /\ ifs.gcount <= cfg.hashsize)
       => (engine' = engine /\ ostr' = ostr /\ pc' = "d_hash")]_vars

\* decrypt() is running
InDecrypt == pc \in {"d_seek", "d_loop", "d_body", "d_tail", "d_hash"}

\* a full chunk that ends behind the start of the hash is cut down to its
\* bytes before the hash, and the boundary is marked
BoundaryChunkTruncated ==
  (pc = "d_body" /\ Tell(ifs) > hash_pos) =>
    /\ ciphertext' = SubSeq(ifs.data, ifs.pos - DecReadSize + 1, hash_pos)
    /\ Len(ciphertext') \in 0..(MACSIZE + cfg.blocksize)
    /\ in_mac'

\* once the boundary is marked no read is issued on the input
NoReadAfterBoundary == (InDecrypt /\ in_mac) => ifs' = ifs

\* once the boundary is marked no chunk goes to the engine or to the hash
NoChunkAfterBoundary ==
  (InDecrypt /\ in_mac) => (engine' = engine /\ state' = state /\ ostr' = ostr)

\* the two parts that every step of decrypt() keeps
TruncationAtBoundary == [][BoundaryChunkTruncated]_vars

NothingUsedAfterBoundary == [][NoChunkAfterBoundary]_vars

\* C22: in decrypt, when a chunk read ends past offset length - hashsize, the
\* chunk is truncated to exactly the bytes at offsets strictly below
\* length - hashsize (between 0 and MACSIZE + blocksize of them), the
\* boundary is marked as reached, and after this chunk no further block read
\* occurs and no further chunk is decrypted or fed to the hash.
C22_BoundaryTruncation ==
  [][BoundaryChunkTruncated /\ NoReadAfterBoundary /\ NoChunkAfterBoundary]_vars

\* C23: in the terminal short-read case of decrypt, the size rule (strip the
\* last hashsize bytes when the chunk is longer than hashsize, else treat the
\* chunk as empty) yields exactly the bytes of the chunk whose file offset is
\* below length - hashsize, for every blocksize, hashsize and input length
\* >= hashsize, blocksize equal to hashsize included.
C23_SizeRuleExact ==
  [][(pc = "d_tail" /\ ~in_mac /\ ifs.gcount # 0
        /\ Len(ifs.data) >= cfg.hashsize)
       => ciphertext' = SubSeq(ifs.data, ifs.pos - ifs.gcount + 1,
                               Len(ifs.data) - cfg.hashsize)]_vars

\* the size rule has cut the hash off a terminal chunk longer than the hash,
\* with blocksize equal to hashsize, on an input that is not a whole file
C23_Witness ==
  /\ pc \in {"d_hash", "d_done"}
  /\ tamper.kind = "prefix"
  /\ tamper.i < Len(artifact)
  /\ ~in_mac
  /\ cfg.blocksize = cfg.hashsize
  /\ ifs.gcount > cfg.hashsize
  /\ engine # <<>>
  /\ engine[Len(engine)].len = ifs.gcount - cfg.hashsize
  /\ Len(ciphertext) = ifs.gcount - cfg.hashsize

\* the bytes of the input of decrypt() before its last hashsize bytes
InputBody == SubSeq(ifs.data, 1, Len(ifs.data) - cfg.hashsize)

\* the last hashsize bytes of the input of decrypt()
InputDigest ==
  SubSeq(ifs.data, Len(ifs.data) - cfg.hashsize + 1, Len(ifs.data))

\* C24: whenever decrypt reaches the comparison of the hashes, the hash has
\* been fed exactly the input bytes at offsets 0 .. length - hashsize - 1, in
\* order and each once, and no byte of the stored hash; so decrypt can
\* succeed only if the stored hash is the keyed hash of everything that
\* precedes it in the input.
C24_ByteAccounting ==
  /\ pc = "d_hash" =>
       /\ state = HashUpdate(HashInit, InputBody)
       /\ hash_saved = InputDigest
  /\ (pc = "d_done" /\ result = "ok") =>
       InputDigest = HashFinal(HashUpdate(HashInit, InputBody),
                               cfg.hashkey, cfg.hashsize)

\* decrypt has reached the comparison on a file whose stored hash was
\* altered, by way of the final partial chunk
C24_Witness ==
  /\ pc = "d_hash"
  /\ tamper.kind = "digest"
  /\ engine # <<>>
  /\ ~in_mac
  /\ Len(state) = Len(ifs.data) - cfg.hashsize

\* C25: every read that encrypt or decrypt issues into its chunk buffer asks
\* for at most the buffer's current active length; in particular, after
\* decrypt has shrunk its ciphertext buffer at the boundary of the hash, it
\* never again reads MACSIZE + blocksize bytes into that shrunk buffer.
C25_BufferBound ==
  [][/\ pc = "e_loop" => cfg.blocksize <= Len(plaintext)
     /\ pc = "d_loop" => DecReadSize <= Len(ciphertext)]_vars

====
